---- MODULE Spec2Model ----
(***************************************************************************)
(* AI context server (src/ai-context-server.py): the snapshot engine.      *)
(*                                                                         *)
(* Threads: the daemon "watcher" thread started by the constructor, the    *)
(* "main" thread that runs run() (startup scan, then the Flask app), and   *)
(* the request handler threads of the Flask app.  Every thread that calls  *)
(* scan_codebase runs it on its own stack; the locals of that call are     *)
(* sc[t].  The shared state is self.current_snapshot, self.last_scan, the  *)
(* SQLite tables and the file tree.                                        *)
(***************************************************************************)
EXTENDS Integers, Sequences, FiniteSets, TLC

VARIABLES
    now,                \* time.time()
    project_root,       \* self.project_root: the segments of the resolved path
    disk,               \* the files under project_root: path -> content state
    snapshots,          \* the CodebaseSnapshot objects constructed so far (the heap)
    current_snapshot,   \* self.current_snapshot: index into snapshots, or None
    last_scan,          \* self.last_scan
    codebase_snapshots, \* table codebase_snapshots (committed rows)
    file_snapshots,     \* table file_snapshots (committed rows)
    sc,                 \* per thread: the frame of its scan_codebase call
    w_pc,               \* watch_files: position in the loop
    w_current_time,     \* watch_files: local current_time
    w_wake,             \* watch_files: end of the current time.sleep
    m_pc,               \* main thread: position in run()
    hd,                 \* per request handler: its frame
    scans_started,      \* number of scan_codebase calls begun
    scans_completed,    \* number of scan_codebase calls that returned
    save_failures,      \* number of save_snapshot calls that logged an error
    published,          \* the assignments to self.current_snapshot, in order
    requests,           \* number of requests accepted
    sr                  \* the search over one file: its inputs and its matches

vars == <<now, project_root, disk, snapshots, current_snapshot, last_scan, codebase_snapshots,
          file_snapshots, sc, w_pc, w_current_time, w_wake, m_pc, hd,
          scans_started, scans_completed, save_failures, published, requests, sr>>

----------------------------------------------------------------------------
(* Bounds of the model *)

StartTime == 35
Horizon == 5
SchedHorizon == 45
MaxLines == 2
MaxScans == 3
MaxRequests == 2

(* Program constants *)

scan_interval == 30
TickSeconds == 5
BackoffSeconds == 30
None == 0

Handlers == {"h1"}
Threads == {"watcher", "main"} \cup Handlers

SnapshotQueries == {"current", "files", "search", "stats"}

----------------------------------------------------------------------------
(* The file tree, in the order rglob yields it *)

Tree ==
    << [path |-> "a.py",        parts |-> <<"a.py">>,           suffix |-> ".py",  is_file |-> TRUE],
       [path |-> "src",         parts |-> <<"src">>,            suffix |-> "",     is_file |-> FALSE],
       [path |-> "src/b.RS",    parts |-> <<"src", "b.RS">>,    suffix |-> ".RS",  is_file |-> TRUE],
       [path |-> "src/node_modules/pkg/e.js",
        parts |-> <<"src", "node_modules", "pkg", "e.js">>,     suffix |-> ".js",  is_file |-> TRUE],
       [path |-> "target/c.py", parts |-> <<"target", "c.py">>, suffix |-> ".py",  is_file |-> TRUE],
       [path |-> "d.exe",       parts |-> <<"d.exe">>,          suffix |-> ".exe", is_file |-> TRUE] >>

VaryingPaths == {"a.py", "src/b.RS"}
FilePaths == {Tree[i].path : i \in {j \in 1..Len(Tree) : Tree[j].is_file}}

FileStates ==
    [kind : {"text"}, lines : 1..MaxLines]
        \cup {[kind |-> "binary", lines |-> 0], [kind |-> "ioerror", lines |-> 0]}

(* What a file can become while the server runs: also removed. *)
LiveStates == FileStates \cup {[kind |-> "missing", lines |-> 0]}

code_extensions ==
    (".rs" :> "rust") @@ (".py" :> "python") @@ (".js" :> "javascript")
        @@ (".ts" :> "typescript") @@ (".proto" :> "protobuf") @@ (".sql" :> "sql")
        @@ (".toml" :> "toml") @@ (".yaml" :> "yaml") @@ (".yml" :> "yaml")
        @@ (".json" :> "json") @@ (".md" :> "markdown") @@ (".sh" :> "shell")
        @@ (".txt" :> "text") @@ (".lisp" :> "lisp") @@ (".cbu" :> "cbu-dsl")

ignore_dirs ==
    {"target", ".git", "node_modules", ".next", "dist", "build", "__pycache__",
     ".vscode", ".idea", "export"}

Lower(s) == IF s = ".RS" THEN ".rs" ELSE s

(* Path(project_root).resolve(): the root as given, and a root that lies below
   a directory whose name is in ignore_dirs. *)
PlainRoot == <<"/", "home", "proj">>

Roots == {PlainRoot, <<"/", "home", "build", "proj">>}

(* file_path.parts: the segments of the absolute path of entry e. *)
Parts(e) == project_root \o e.parts

----------------------------------------------------------------------------
(* scan_codebase: the walk *)

NoLocals == [files |-> <<>>, total_lines |-> 0, file_types |-> <<>>]

IdleFrame == [pc |-> "idle", pos |-> 0, loc |-> NoLocals, snap |-> None]

Bump(file_types, file_type) ==
    IF file_type \in DOMAIN file_types
    THEN [file_types EXCEPT ![file_type] = @ + 1]
    ELSE file_types @@ (file_type :> 1)

(* file_path.stat(): the size follows the content, the mtime is not changed
   by anything the server does. *)
Stat(st) ==
    [st_size |-> IF st.kind = "text" THEN st.lines ELSE 1, st_mtime |-> 0]

FileInfo(e, stat, content_hash, file_type, lines) ==
    [path |-> e.path, size |-> stat.st_size, modified |-> stat.st_mtime,
     content_hash |-> content_hash, file_type |-> file_type, lines |-> lines]

(* Variant: only the directory that holds the file is compared with the names. *)
IsCandidateParentOnly(e) ==
    /\ ~(Len(Parts(e)) > 1 /\ Parts(e)[Len(Parts(e)) - 1] \in ignore_dirs)
    /\ e.is_file
    /\ Lower(e.suffix) \in DOMAIN code_extensions

(* The loop body touches the locals only for a candidate: a file none of whose
   path segments is an ignored name and whose extension is in the table. *)
IsCandidate(e) ==
    /\ ~(\E i \in 1..Len(Parts(e)) : Parts(e)[i] \in ignore_dirs)
    /\ e.is_file
    /\ Lower(e.suffix) \in DOMAIN code_extensions

(* Variant: the category is counted before the file is read, so a file whose
   read fails is counted in file_types although it is skipped. *)
ProcessEntryCountsFirst(loc, e, st) ==
    IF ~IsCandidate(e) THEN loc
    ELSE LET file_type == code_extensions[Lower(e.suffix)]
             lines == IF st.kind = "text" THEN st.lines ELSE 0
             content_hash == IF st.kind = "text"
                             THEN <<"md5", "content", st.lines>>
                             ELSE <<"md5", "path", e.path>>
         IN IF st.kind \in {"ioerror", "missing"}
            THEN [loc EXCEPT !.file_types = Bump(loc.file_types, file_type)]
            ELSE [files |-> Append(loc.files,
                                   FileInfo(e, Stat(st), content_hash, file_type, lines)),
                  total_lines |-> loc.total_lines + lines,
                  file_types |-> Bump(loc.file_types, file_type)]

(* Variant: a file that cannot be decoded is skipped like a file that cannot
   be read. *)
ProcessEntrySkipsBinary(loc, e, st) ==
    IF ~IsCandidate(e) THEN loc
    ELSE IF st.kind \in {"ioerror", "missing", "binary"} THEN loc
    ELSE LET file_type == code_extensions[Lower(e.suffix)]
         IN [files |-> Append(loc.files,
                              FileInfo(e, Stat(st), <<"md5", "content", st.lines>>,
                                       file_type, st.lines)),
             total_lines |-> loc.total_lines + st.lines,
             file_types |-> Bump(loc.file_types, file_type)]

(* Variant: the try encloses the loop, and a file that cannot be read ends
   the walk with nothing collected. *)
ProcessEntryDropsOnError(loc, e, st) ==
    IF ~IsCandidate(e) THEN loc
    ELSE IF st.kind \in {"ioerror", "missing"} THEN NoLocals
    ELSE LET file_type == code_extensions[Lower(e.suffix)]
             lines == IF st.kind = "text" THEN st.lines ELSE 0
             content_hash == IF st.kind = "text"
                             THEN <<"md5", "content", st.lines>>
                             ELSE <<"md5", "path", e.path>>
         IN [files |-> Append(loc.files,
                              FileInfo(e, Stat(st), content_hash, file_type, lines)),
             total_lines |-> loc.total_lines + lines,
             file_types |-> Bump(loc.file_types, file_type)]

(* One iteration of the for loop over rglob('*'): entry e with content st. *)
ProcessEntry(loc, e, st) ==
    IF ~IsCandidate(e) THEN loc
    ELSE IF st.kind \in {"ioerror", "missing"} THEN loc
    ELSE LET file_type == code_extensions[Lower(e.suffix)]
             lines == IF st.kind = "text" THEN st.lines ELSE 0
             content_hash == IF st.kind = "text"
                             THEN <<"md5", "content", st.lines>>
                             ELSE <<"md5", "path", e.path>>
         IN [files |-> Append(loc.files,
                              FileInfo(e, Stat(st), content_hash, file_type, lines)),
             total_lines |-> loc.total_lines + lines,
             file_types |-> Bump(loc.file_types, file_type)]

(* Variant: the digest of a file that could not be decoded is taken from the
   time of the scan. *)
MakeSnapshotSalted(loc, ts) ==
    [timestamp |-> ts, total_files |-> Len(loc.files), total_lines |-> loc.total_lines,
     file_types |-> loc.file_types,
     files |-> [k \in 1..Len(loc.files) |->
                   IF loc.files[k].lines = 0
                   THEN [loc.files[k] EXCEPT !.content_hash = <<"md5", "time", ts>>]
                   ELSE loc.files[k]]]

MakeSnapshot(loc, ts) ==
    [timestamp |-> ts, total_files |-> Len(loc.files), total_lines |-> loc.total_lines,
     file_types |-> loc.file_types, files |-> loc.files]

(* The loop runs up to the next candidate at or after pos (Len(Tree) + 1: none). *)
RECURSIVE NextCandidate(_)
NextCandidate(pos) ==
    IF pos > Len(Tree) THEN pos
    ELSE IF IsCandidate(Tree[pos]) THEN pos
    ELSE NextCandidate(pos + 1)

Alive == m_pc # "exited"

(* A thread enters scan_codebase. *)
CallScan(t) ==
    /\ scans_started < MaxScans
    /\ scans_started' = scans_started + 1
    /\ sc' = [sc EXCEPT ![t] = [pc |-> "walk", pos |-> NextCandidate(1),
                                loc |-> NoLocals, snap |-> None]]

(* Variant: the snapshot object is installed while the walk is still filling
   it: the files so far are visible, the totals are not yet set. *)
ScanEntryShared(t) ==
    /\ Alive
    /\ sc[t].pc = "walk"
    /\ sc[t].pos <= Len(Tree)
    /\ LET e == Tree[sc[t].pos]
           loc == ProcessEntry(sc[t].loc, e, disk[e.path])
       IN /\ sc' = [sc EXCEPT ![t].loc = loc, ![t].pos = NextCandidate(@ + 1)]
          /\ snapshots' = Append(snapshots,
                                 [timestamp |-> now, total_files |-> 0, total_lines |-> 0,
                                  file_types |-> <<>>, files |-> loc.files])
    /\ current_snapshot' = Len(snapshots) + 1
    /\ published' = Append(published, Len(snapshots) + 1)
    /\ UNCHANGED <<sr, project_root, now, disk, last_scan, codebase_snapshots, file_snapshots, w_pc,
                   w_current_time, w_wake, m_pc, hd, scans_started, scans_completed,
                   save_failures, requests>>

ScanEntry(t) ==
    /\ Alive
    /\ sc[t].pc = "walk"
    /\ sc[t].pos <= Len(Tree)
    /\ LET e == Tree[sc[t].pos]
           st == IF e.is_file THEN disk[e.path] ELSE [kind |-> "dir", lines |-> 0]
       IN sc' = [sc EXCEPT ![t].loc = ProcessEntry(@, e, st),
                           ![t].pos = NextCandidate(@ + 1)]
    /\ UNCHANGED <<sr, project_root, now, disk, snapshots, current_snapshot, last_scan,
                   codebase_snapshots, file_snapshots, w_pc, w_current_time, w_wake,
                   m_pc, hd, scans_started, scans_completed, save_failures,
                   published, requests>>

(* Variant: a walk that raises still installs what it has collected. *)
ScanWalkRaisesPublishes(t) ==
    /\ Alive
    /\ sc[t].pc = "walk"
    /\ sc[t].pos <= Len(Tree)
    /\ snapshots' = Append(snapshots, MakeSnapshot(sc[t].loc, now))
    /\ current_snapshot' = Len(snapshots) + 1
    /\ published' = Append(published, Len(snapshots) + 1)
    /\ sc' = [sc EXCEPT ![t] = [IdleFrame EXCEPT !.pc = "raised"]]
    /\ UNCHANGED <<sr, project_root, now, disk, last_scan, codebase_snapshots, file_snapshots, w_pc,
                   w_current_time, w_wake, m_pc, hd, scans_started, scans_completed,
                   save_failures, requests>>

(* The walk itself raises (rglob or is_file on an entry), outside the per-file try. *)
ScanWalkRaises(t) ==
    /\ Alive
    /\ sc[t].pc = "walk"
    /\ sc[t].pos <= Len(Tree)
    /\ sc' = [sc EXCEPT ![t] = [IdleFrame EXCEPT !.pc = "raised"]]
    /\ UNCHANGED <<sr, project_root, now, disk, snapshots, current_snapshot, last_scan,
                   codebase_snapshots, file_snapshots, w_pc, w_current_time, w_wake,
                   m_pc, hd, scans_started, scans_completed, save_failures,
                   published, requests>>

(* snapshot = CodebaseSnapshot(timestamp=time.time(), ...): the object is
   built from the locals and is known to this call only. *)
ScanBuild(t) ==
    /\ Alive
    /\ sc[t].pc = "walk"
    /\ sc[t].pos > Len(Tree)
    /\ snapshots' = Append(snapshots, MakeSnapshot(sc[t].loc, now))
    /\ sc' = [sc EXCEPT ![t].pc = "built", ![t].snap = Len(snapshots) + 1]
    /\ UNCHANGED <<sr, project_root, now, disk, current_snapshot, last_scan,
                   codebase_snapshots, file_snapshots, w_pc, w_current_time, w_wake,
                   m_pc, hd, scans_started, scans_completed, save_failures,
                   published, requests>>

(* self.current_snapshot = snapshot *)
ScanPublish(t) ==
    /\ Alive
    /\ sc[t].pc = "built"
    /\ current_snapshot' = sc[t].snap
    /\ published' = Append(published, sc[t].snap)
    /\ sc' = [sc EXCEPT ![t].pc = "save"]
    /\ UNCHANGED <<sr, project_root, now, disk, snapshots, last_scan,
                   codebase_snapshots, file_snapshots, w_pc, w_current_time, w_wake,
                   m_pc, hd, scans_started, scans_completed, save_failures, requests>>

GitCommits == {"c0ffee"}

SummaryRow(s, git_commit) ==
    [timestamp |-> s.timestamp, total_files |-> s.total_files,
     total_lines |-> s.total_lines, file_types |-> s.file_types,
     git_commit |-> git_commit]

FileRows(s) ==
    [i \in 1..Len(s.files) |->
        [timestamp |-> s.timestamp, file_path |-> s.files[i].path,
         content_hash |-> s.files[i].content_hash, file_size |-> s.files[i].size,
         modified_time |-> s.files[i].modified, lines |-> s.files[i].lines]]

(* Variant: the summary row is inserted a second time. *)
SaveCommitsTwice(t) ==
    /\ Alive
    /\ sc[t].pc = "save"
    /\ \E g \in GitCommits :
          codebase_snapshots' =
              codebase_snapshots \o << SummaryRow(snapshots[sc[t].snap], g),
                                       SummaryRow(snapshots[sc[t].snap], g) >>
    /\ file_snapshots' = file_snapshots \o FileRows(snapshots[sc[t].snap])
    /\ sc' = [sc EXCEPT ![t].pc = "ret"]
    /\ scans_completed' = scans_completed + 1
    /\ UNCHANGED <<sr, project_root, now, disk, snapshots, current_snapshot, last_scan, w_pc,
                   w_current_time, w_wake, m_pc, hd, scans_started, save_failures,
                   published, requests>>

(* save_snapshot commits, then scan_codebase logs and returns the snapshot. *)
SaveCommits(t) ==
    /\ Alive
    /\ sc[t].pc = "save"
    /\ \E g \in GitCommits :
          codebase_snapshots' =
              Append(codebase_snapshots, SummaryRow(snapshots[sc[t].snap], g))
    /\ file_snapshots' = file_snapshots \o FileRows(snapshots[sc[t].snap])
    /\ sc' = [sc EXCEPT ![t].pc = "ret"]
    /\ scans_completed' = scans_completed + 1
    /\ UNCHANGED <<sr, project_root, now, disk, snapshots, current_snapshot, last_scan, w_pc,
                   w_current_time, w_wake, m_pc, hd, scans_started, save_failures,
                   published, requests>>

(* Variant: save_snapshot lets the exception out, and scan_codebase raises. *)
SaveFailsPropagates(t) ==
    /\ Alive
    /\ sc[t].pc = "save"
    /\ save_failures' = save_failures + 1
    /\ sc' = [sc EXCEPT ![t] = [IdleFrame EXCEPT !.pc = "raised"]]
    /\ UNCHANGED <<sr, project_root, now, disk, snapshots, current_snapshot, last_scan,
                   codebase_snapshots, file_snapshots, w_pc, w_current_time, w_wake,
                   m_pc, hd, scans_started, scans_completed, published, requests>>

(* Variant: every INSERT is committed on its own, so what was inserted before
   the failure stays in the tables. *)
SaveFailsKeepsPartial(t) ==
    /\ Alive
    /\ sc[t].pc = "save"
    /\ \E g \in GitCommits :
          codebase_snapshots' =
              Append(codebase_snapshots, SummaryRow(snapshots[sc[t].snap], g))
    /\ \E k \in 0..(IF Len(snapshots[sc[t].snap].files) = 0 THEN 0
                     ELSE Len(snapshots[sc[t].snap].files) - 1) :
          file_snapshots' =
              file_snapshots \o SubSeq(FileRows(snapshots[sc[t].snap]), 1, k)
    /\ save_failures' = save_failures + 1
    /\ sc' = [sc EXCEPT ![t].pc = "ret"]
    /\ scans_completed' = scans_completed + 1
    /\ UNCHANGED <<sr, project_root, now, disk, snapshots, current_snapshot, last_scan,
                   w_pc, w_current_time, w_wake, m_pc, hd, scans_started, published,
                   requests>>

(* save_snapshot raises inside its try: logged, nothing committed. *)
SaveFails(t) ==
    /\ Alive
    /\ sc[t].pc = "save"
    /\ save_failures' = save_failures + 1
    /\ sc' = [sc EXCEPT ![t].pc = "ret"]
    /\ scans_completed' = scans_completed + 1
    /\ UNCHANGED <<sr, project_root, now, disk, snapshots, current_snapshot, last_scan,
                   codebase_snapshots, file_snapshots, w_pc, w_current_time, w_wake,
                   m_pc, hd, scans_started, published, requests>>

----------------------------------------------------------------------------
(* start_file_watcher: watch_files *)

(* Variant: the scan is triggered as soon as the interval has elapsed. *)
W_CheckAtLeast ==
    /\ Alive
    /\ w_pc = "check"
    /\ w_current_time' = now
    /\ IF now - last_scan >= scan_interval
       THEN /\ CallScan("watcher")
            /\ w_pc' = "scanning"
            /\ UNCHANGED w_wake
       ELSE /\ w_pc' = "sleep"
            /\ w_wake' = now + TickSeconds
            /\ UNCHANGED <<sc, scans_started>>
    /\ UNCHANGED <<sr, project_root, now, disk, snapshots, current_snapshot, last_scan,
                   codebase_snapshots, file_snapshots, m_pc, hd, scans_completed,
                   save_failures, published, requests>>

W_Check ==
    /\ Alive
    /\ w_pc = "check"
    /\ w_current_time' = now
    /\ IF now - last_scan > scan_interval
       THEN /\ CallScan("watcher")
            /\ w_pc' = "scanning"
            /\ UNCHANGED w_wake
       ELSE /\ w_pc' = "sleep"
            /\ w_wake' = now + TickSeconds
            /\ UNCHANGED <<sc, scans_started>>
    /\ UNCHANGED <<sr, project_root, now, disk, snapshots, current_snapshot, last_scan,
                   codebase_snapshots, file_snapshots, m_pc, hd, scans_completed,
                   save_failures, published, requests>>

W_ScanReturned ==
    /\ Alive
    /\ w_pc = "scanning"
    /\ sc["watcher"].pc = "ret"
    /\ last_scan' = w_current_time
    /\ w_pc' = "sleep"
    /\ w_wake' = now + TickSeconds
    /\ sc' = [sc EXCEPT !["watcher"] = IdleFrame]
    /\ UNCHANGED <<sr, project_root, now, disk, snapshots, current_snapshot, codebase_snapshots,
                   file_snapshots, w_current_time, m_pc, hd, scans_started,
                   scans_completed, save_failures, published, requests>>

(* Variant: the except clause is outside the while loop, so an error ends it. *)
W_ExceptOutsideLoop ==
    /\ Alive
    /\ w_pc = "scanning"
    /\ sc["watcher"].pc = "raised"
    /\ w_pc' = "dead"
    /\ w_wake' = now + BackoffSeconds
    /\ sc' = [sc EXCEPT !["watcher"] = IdleFrame]
    /\ UNCHANGED <<sr, project_root, now, disk, snapshots, current_snapshot, last_scan,
                   codebase_snapshots, file_snapshots, w_current_time, m_pc, hd,
                   scans_started, scans_completed, save_failures, published, requests>>

W_Except ==
    /\ Alive
    /\ w_pc = "scanning"
    /\ sc["watcher"].pc = "raised"
    /\ w_pc' = "backoff"
    /\ w_wake' = now + BackoffSeconds
    /\ sc' = [sc EXCEPT !["watcher"] = IdleFrame]
    /\ UNCHANGED <<sr, project_root, now, disk, snapshots, current_snapshot, last_scan,
                   codebase_snapshots, file_snapshots, w_current_time, m_pc, hd,
                   scans_started, scans_completed, save_failures, published, requests>>

W_Wake ==
    /\ Alive
    /\ w_pc \in {"sleep", "backoff"}
    /\ now >= w_wake
    /\ w_pc' = "check"
    /\ UNCHANGED <<sr, project_root, now, disk, snapshots, current_snapshot, last_scan,
                   codebase_snapshots, file_snapshots, sc, w_current_time, w_wake,
                   m_pc, hd, scans_started, scans_completed, save_failures,
                   published, requests>>

----------------------------------------------------------------------------
(* run(): the startup scan, then the Flask app *)

M_Run ==
    /\ m_pc = "run"
    /\ CallScan("main")
    /\ m_pc' = "scanning"
    /\ UNCHANGED <<sr, project_root, now, disk, snapshots, current_snapshot, last_scan,
                   codebase_snapshots, file_snapshots, w_pc, w_current_time, w_wake,
                   hd, scans_completed, save_failures, published, requests>>

M_ScanReturned ==
    /\ m_pc = "scanning"
    /\ sc["main"].pc = "ret"
    /\ m_pc' = "serving"
    /\ sc' = [sc EXCEPT !["main"] = IdleFrame]
    /\ UNCHANGED <<sr, project_root, now, disk, snapshots, current_snapshot, last_scan,
                   codebase_snapshots, file_snapshots, w_pc, w_current_time, w_wake,
                   hd, scans_started, scans_completed, save_failures, published,
                   requests>>

(* The startup scan raises: run() raises, main() logs and the process ends. *)
M_Except ==
    /\ m_pc = "scanning"
    /\ sc["main"].pc = "raised"
    /\ m_pc' = "exited"
    /\ sc' = [sc EXCEPT !["main"] = IdleFrame]
    /\ UNCHANGED <<sr, project_root, now, disk, snapshots, current_snapshot, last_scan,
                   codebase_snapshots, file_snapshots, w_pc, w_current_time, w_wake,
                   hd, scans_started, scans_completed, save_failures, published,
                   requests>>

----------------------------------------------------------------------------
(* search_content: the matches of one file.  A file is its lines; a line is
   its 1-based position and its text. *)

MaxFileLines == 5

MatchLimit == 10

MaxLongLines == 12

LineTexts == {"q", "Q", "x", " q "}

Queries == {"q", "Q"}

Strip(text) == IF text = " q " THEN "q" ELSE IF text = " " THEN "" ELSE text

LowerText(text) ==
    IF text = "Q" THEN "q" ELSE text

(* query in text, for a query of one letter *)
Contains(text, query) == Strip(text) = query

Min(a, b) == IF a < b THEN a ELSE b

Max(a, b) == IF a > b THEN a ELSE b

(* s[a:b] for 0 <= a and b <= len(s) *)
PySlice(s, a, b) == SubSeq(s, a + 1, b)

(* The entry appended for the line at 0-based index i. *)
MatchAt(lines, i) ==
    [line_number |-> i + 1,
     content |-> Strip(lines[i + 1].text),
     context_before |-> IF i > 1 THEN PySlice(lines, Max(0, i - 2), i) ELSE <<>>,
     context_after |-> IF i < Len(lines) - 1
                       THEN PySlice(lines, i + 1, Min(Len(lines), i + 3))
                       ELSE <<>>]

LineMatches(line, query, case_sensitive) ==
    LET search_query == IF case_sensitive THEN query ELSE LowerText(query)
        search_line == IF case_sensitive THEN line.text ELSE LowerText(line.text)
    IN Contains(search_line, search_query)

(* for i, line in enumerate(lines), from index i on *)
RECURSIVE MatchingLines(_, _, _, _)
MatchingLines(lines, query, case_sensitive, i) ==
    IF i >= Len(lines) THEN <<>>
    ELSE IF LineMatches(lines[i + 1], query, case_sensitive)
         THEN <<MatchAt(lines, i)>> \o MatchingLines(lines, query, case_sensitive, i + 1)
         ELSE MatchingLines(lines, query, case_sensitive, i + 1)

(* Variant: every matching line is emitted. *)
SearchFileNoLimit(lines, query, case_sensitive) ==
    IF \E k \in 1..Len(lines) : LineMatches(lines[k], query, case_sensitive)
    THEN MatchingLines(lines, query, case_sensitive, 0)
    ELSE <<>>

(* The 'matches' of the file's result entry; <<>> when the file has no entry. *)
SearchFile(lines, query, case_sensitive) ==
    IF \E k \in 1..Len(lines) : LineMatches(lines[k], query, case_sensitive)
    THEN LET matching_lines == MatchingLines(lines, query, case_sensitive, 0)
         IN SubSeq(matching_lines, 1, Min(MatchLimit, Len(matching_lines)))
    ELSE <<>>

Files ==
    UNION {{[i \in 1..n |-> [no |-> i, text |-> f[i]]] : f \in [1..n -> LineTexts]} :
              n \in 0..MaxFileLines}

(* Files long enough to hold more matching lines than the limit. *)
LongFiles ==
    UNION {{[i \in 1..n |-> [no |-> i, text |-> f[i]]] : f \in [1..n -> {"q", "x"}]} :
              n \in (MatchLimit + 1)..MaxLongLines}

----------------------------------------------------------------------------
(* Request handlers for the snapshot queries *)

(* request.args of a search: q after strip(), type, case_sensitive *)
NoArgs == [q |-> "", type |-> "", case_sensitive |-> FALSE]

SearchArgs ==
    {[q |-> "q", type |-> "", case_sensitive |-> FALSE],
     [q |-> "Q", type |-> "", case_sensitive |-> TRUE],
     [q |-> "q", type |-> "python", case_sensitive |-> FALSE]}

(* Values of the parameter q that are empty after strip(). *)
BlankQueries == {"", " "}

IdleHandler == [pc |-> "idle", kind |-> "none", booted |-> FALSE, mine |-> None,
                r1 |-> None, v1 |-> None, r2 |-> None, v2 |-> None,
                args |-> NoArgs, status |-> 0, results |-> <<>>]

Serving == m_pc \in {"serving", "embedded"}

(* A request arrives with the arguments args. *)
H_RequestWith(h, kind, args) ==
    /\ Serving
    /\ hd[h].pc = "idle"
    /\ requests < MaxRequests
    /\ requests' = requests + 1
    /\ hd' = [hd EXCEPT ![h] = [IdleHandler EXCEPT !.pc = "check", !.kind = kind,
                                                  !.args = args]]
    /\ UNCHANGED <<sr, project_root, now, disk, snapshots, current_snapshot, last_scan,
                   codebase_snapshots, file_snapshots, sc, w_pc, w_current_time,
                   w_wake, m_pc, scans_started, scans_completed, save_failures,
                   published>>

(* A snapshot query; a search is the plain one, ?q=q. *)
H_Request(h, kind) ==
    H_RequestWith(h, kind,
                  IF kind = "search" THEN [NoArgs EXCEPT !.q = "q"] ELSE NoArgs)

(* Variant: the query is tested after the bootstrap, as the other handlers
   test their parameters. *)
H_SearchEmptyChecksLater(h, raw) ==
    /\ Serving
    /\ hd[h].pc = "idle"
    /\ requests < MaxRequests
    /\ Strip(raw) = ""
    /\ requests' = requests + 1
    /\ hd' = [hd EXCEPT ![h] = [IdleHandler EXCEPT !.pc = "check", !.kind = "search"]]
    /\ UNCHANGED <<sr, project_root, now, disk, snapshots, current_snapshot, last_scan,
                   codebase_snapshots, file_snapshots, sc, w_pc, w_current_time,
                   w_wake, m_pc, scans_started, scans_completed, save_failures,
                   published>>

(* search_content with a query that is empty after strip(): 400, at once. *)
H_SearchEmpty(h, raw) ==
    /\ Serving
    /\ hd[h].pc = "idle"
    /\ requests < MaxRequests
    /\ Strip(raw) = ""
    /\ requests' = requests + 1
    /\ hd' = [hd EXCEPT ![h] = [IdleHandler EXCEPT !.pc = "respond", !.kind = "search",
                                                  !.status = 400]]
    /\ UNCHANGED <<sr, project_root, now, disk, snapshots, current_snapshot, last_scan,
                   codebase_snapshots, file_snapshots, sc, w_pc, w_current_time,
                   w_wake, m_pc, scans_started, scans_completed, save_failures,
                   published>>

(* Variant: the handler goes on to build its response without the bootstrap. *)
H_CheckNoBootstrap(h) ==
    /\ Serving
    /\ hd[h].pc = "check"
    /\ hd' = [hd EXCEPT ![h].pc = "read1"]
    /\ UNCHANGED <<sr, project_root, sc, scans_started, now, disk, snapshots, current_snapshot,
                   last_scan, codebase_snapshots, file_snapshots, w_pc, w_current_time,
                   w_wake, m_pc, scans_completed, save_failures, published, requests>>

(* if not self.current_snapshot: self.scan_codebase() *)
H_Check(h) ==
    /\ Serving
    /\ hd[h].pc = "check"
    /\ IF current_snapshot = None
       THEN /\ CallScan(h)
            /\ hd' = [hd EXCEPT ![h].pc = "scanning", ![h].booted = TRUE]
       ELSE /\ hd' = [hd EXCEPT ![h].pc = "read1"]
            /\ UNCHANGED <<sc, scans_started>>
    /\ UNCHANGED <<sr, project_root, now, disk, snapshots, current_snapshot, last_scan,
                   codebase_snapshots, file_snapshots, w_pc, w_current_time, w_wake,
                   m_pc, scans_completed, save_failures, published, requests>>

H_ScanReturned(h) ==
    /\ Serving
    /\ hd[h].pc = "scanning"
    /\ sc[h].pc = "ret"
    /\ hd' = [hd EXCEPT ![h].pc = "read1", ![h].mine = sc[h].snap]
    /\ sc' = [sc EXCEPT ![h] = IdleFrame]
    /\ UNCHANGED <<sr, project_root, now, disk, snapshots, current_snapshot, last_scan,
                   codebase_snapshots, file_snapshots, w_pc, w_current_time, w_wake,
                   m_pc, scans_started, scans_completed, save_failures, published,
                   requests>>

(* The bootstrap scan raises: the request fails with a server error. *)
H_Except(h) ==
    /\ Serving
    /\ hd[h].pc = "scanning"
    /\ sc[h].pc = "raised"
    /\ hd' = [hd EXCEPT ![h] = IdleHandler]
    /\ sc' = [sc EXCEPT ![h] = IdleFrame]
    /\ UNCHANGED <<sr, project_root, now, disk, snapshots, current_snapshot, last_scan,
                   codebase_snapshots, file_snapshots, w_pc, w_current_time, w_wake,
                   m_pc, scans_started, scans_completed, save_failures, published,
                   requests>>

(* First evaluation of self.current_snapshot while building the response. *)
H_Read1(h) ==
    /\ Serving
    /\ hd[h].pc = "read1"
    /\ hd' = [hd EXCEPT ![h].pc = IF hd[h].kind = "search" THEN "loop" ELSE "read2",
                        ![h].r1 = current_snapshot,
                        ![h].v1 = IF current_snapshot = None THEN None
                                  ELSE snapshots[current_snapshot]]
    /\ UNCHANGED <<sr, project_root, now, disk, snapshots, current_snapshot, last_scan,
                   codebase_snapshots, file_snapshots, sc, w_pc, w_current_time,
                   w_wake, m_pc, scans_started, scans_completed, save_failures,
                   published, requests>>

(* The content of the text file that has n lines. *)
TextOf(n) == [i \in 1..n |-> [no |-> i, text |-> IF i = 1 THEN "x" ELSE "q"]]

(* for file_info in files[k:], on the tree d: the results, or the exception
   that open() or read() lets out of the loop. *)
RECURSIVE SearchFiles(_, _, _, _)
SearchFiles(files, k, d, args) ==
    IF k > Len(files) THEN [failed |-> FALSE, results |-> <<>>]
    ELSE LET file_info == files[k]
             st == d[file_info.path]
             rest == SearchFiles(files, k + 1, d, args)
         IN IF args.type # "" /\ file_info.file_type # args.type THEN rest
            ELSE IF st.kind \in {"binary", "missing"} THEN rest
            ELSE IF st.kind = "ioerror" THEN [failed |-> TRUE, results |-> <<>>]
            ELSE LET matches == SearchFile(TextOf(st.lines), args.q, args.case_sensitive)
                 IN IF matches = <<>> THEN rest
                    ELSE [rest EXCEPT !.results =
                             << [file |-> file_info.path,
                                 file_type |-> file_info.file_type,
                                 matches |-> matches] >> \o @]

(* The loop of search_content over the files of the snapshot read first. *)
H_SearchFiles(h) ==
    /\ Serving
    /\ hd[h].pc = "loop"
    /\ LET r == IF hd[h].r1 = None THEN [failed |-> TRUE, results |-> <<>>]
                ELSE SearchFiles(hd[h].v1.files, 1, disk, hd[h].args)
       IN hd' = IF r.failed
                THEN [hd EXCEPT ![h].pc = "respond", ![h].status = 500]
                ELSE [hd EXCEPT ![h].pc = "read2", ![h].results = r.results]
    /\ UNCHANGED <<sr, project_root, now, disk, snapshots, current_snapshot, last_scan,
                   codebase_snapshots, file_snapshots, sc, w_pc, w_current_time,
                   w_wake, m_pc, scans_started, scans_completed, save_failures,
                   published, requests>>

(* Second evaluation of self.current_snapshot while building the response. *)
H_Read2(h) ==
    /\ Serving
    /\ hd[h].pc = "read2"
    /\ hd' = [hd EXCEPT ![h].pc = "respond",
                        ![h].status = 200,
                        ![h].r2 = current_snapshot,
                        ![h].v2 = IF current_snapshot = None THEN None
                                  ELSE snapshots[current_snapshot]]
    /\ UNCHANGED <<sr, project_root, now, disk, snapshots, current_snapshot, last_scan,
                   codebase_snapshots, file_snapshots, sc, w_pc, w_current_time,
                   w_wake, m_pc, scans_started, scans_completed, save_failures,
                   published, requests>>

H_Respond(h) ==
    /\ Serving
    /\ hd[h].pc = "respond"
    /\ hd' = [hd EXCEPT ![h] = IdleHandler]
    /\ UNCHANGED <<sr, project_root, now, disk, snapshots, current_snapshot, last_scan,
                   codebase_snapshots, file_snapshots, sc, w_pc, w_current_time,
                   w_wake, m_pc, scans_started, scans_completed, save_failures,
                   published, requests>>

----------------------------------------------------------------------------
(* Time: the clock is observed at the granularity of the watcher's tick. *)

AdvanceWithin(horizon) ==
    /\ Alive
    /\ now < StartTime + horizon
    /\ now' = now + TickSeconds
    /\ UNCHANGED <<sr, project_root, disk, snapshots, current_snapshot, last_scan, codebase_snapshots,
                   file_snapshots, sc, w_pc, w_current_time, w_wake, m_pc, hd,
                   scans_started, scans_completed, save_failures, published, requests>>

Advance == AdvanceWithin(Horizon)

----------------------------------------------------------------------------

(* The trees: every content state of the two candidate files. *)
Disks ==
    {d \in [FilePaths -> FileStates] :
        \A p \in FilePaths \ VaryingPaths : d[p] = [kind |-> "text", lines |-> 1]}

(* The trees of the concurrency specification: one text and one other file. *)
FewDisks ==
    {d \in Disks : /\ d["a.py"] = [kind |-> "text", lines |-> MaxLines]
                   /\ d["src/b.RS"].kind # "text"}

InitAt(roots, disks, modes) ==
    /\ now = StartTime
    /\ project_root \in roots
    /\ disk \in disks
    /\ snapshots = <<>>
    /\ current_snapshot = None
    /\ last_scan = 0
    /\ codebase_snapshots = <<>>
    /\ file_snapshots = <<>>
    /\ sc = [t \in Threads |-> IdleFrame]
    /\ w_pc = "check"
    /\ w_current_time = 0
    /\ w_wake = 0
    /\ m_pc \in modes
    /\ hd = [h \in Handlers |-> IdleHandler]
    /\ scans_started = 0
    /\ scans_completed = 0
    /\ save_failures = 0
    /\ published = <<>>
    /\ requests = 0

InitWith(disks, modes) == InitAt({PlainRoot}, disks, modes)

NoSearch == [pc |-> "none", lines |-> <<>>, query |-> "", case_sensitive |-> FALSE,
             matches |-> <<>>]

(* "run": main() constructs the server and calls run(), which serves requests
   only after the startup scan.  "embedded": the server is constructed and its
   Flask app is driven directly (a WSGI container, a test client), run() is
   never called and requests can arrive at once.  In both the constructor has
   started the watcher thread. *)
Init == InitWith(FewDisks, {"run", "embedded"}) /\ sr = NoSearch

Next ==
    \/ \E t \in Threads : ScanEntry(t)
    \/ \E t \in Threads : ScanWalkRaises(t)
    \/ \E t \in Threads : ScanBuild(t)
    \/ \E t \in Threads : ScanPublish(t)
    \/ \E t \in Threads : SaveCommits(t)
    \/ \E t \in Threads : SaveFails(t)
    \/ W_Check
    \/ W_ScanReturned
    \/ W_Except
    \/ W_Wake
    \/ M_Run
    \/ M_ScanReturned
    \/ M_Except
    \/ \E h \in Handlers, kind \in SnapshotQueries : H_Request(h, kind)
    \/ \E h \in Handlers : H_Check(h)
    \/ \E h \in Handlers : H_ScanReturned(h)
    \/ \E h \in Handlers : H_Except(h)
    \/ \E h \in Handlers, raw \in BlankQueries : H_SearchEmpty(h, raw)
    \/ \E h \in Handlers : H_Read1(h)
    \/ \E h \in Handlers : H_SearchFiles(h)
    \/ \E h \in Handlers : H_Read2(h)
    \/ \E h \in Handlers : H_Respond(h)
    \/ Advance

Spec == Init /\ [][Next]_vars

----------------------------------------------------------------------------
(* The scheduler alone: the server constructed and no request arriving, over
   every tree and a horizon that spans the interval and the back-off. *)

SchedAdvance == AdvanceWithin(SchedHorizon)

SchedInit == InitWith(Disks, {"embedded"}) /\ sr = NoSearch

SchedNext ==
    \/ ScanEntry("watcher")
    \/ ScanWalkRaises("watcher")
    \/ ScanBuild("watcher")
    \/ ScanPublish("watcher")
    \/ SaveCommits("watcher")
    \/ SaveFails("watcher")
    \/ W_Check
    \/ W_ScanReturned
    \/ W_Except
    \/ W_Wake
    \/ SchedAdvance

SchedSpec == SchedInit /\ [][SchedNext]_vars

----------------------------------------------------------------------------
(* The scan alone: the watcher's first cycle, over every tree and every root. *)

ScanInit == InitAt(Roots, Disks, {"embedded"}) /\ sr = NoSearch

ScanNext ==
    \/ ScanEntry("watcher")
    \/ ScanWalkRaises("watcher")
    \/ ScanBuild("watcher")
    \/ ScanPublish("watcher")
    \/ SaveCommits("watcher")
    \/ SaveFails("watcher")
    \/ W_Check
    \/ W_ScanReturned
    \/ W_Except
    \/ W_Wake
    \/ Advance

ScanSpec == ScanInit /\ [][ScanNext]_vars

----------------------------------------------------------------------------
(* Search over a tree that changes under the server: one handler serves
   search requests, the first of which runs the bootstrap scan, while files
   are edited, removed or made unreadable. *)

DiskChange(p, st) ==
    /\ st # disk[p]
    /\ disk' = [disk EXCEPT ![p] = st]
    /\ UNCHANGED <<sr, project_root, now, snapshots, current_snapshot, last_scan,
                   codebase_snapshots, file_snapshots, sc, w_pc, w_current_time,
                   w_wake, m_pc, hd, scans_started, scans_completed, save_failures,
                   published, requests>>

LiveInit == InitWith(FewDisks, {"embedded"}) /\ sr = NoSearch

LiveNext ==
    \/ \E h \in Handlers, args \in SearchArgs : H_RequestWith(h, "search", args)
    \/ \E h \in Handlers : H_Check(h)
    \/ \E h \in Handlers : ScanEntry(h)
    \/ \E h \in Handlers : ScanBuild(h)
    \/ \E h \in Handlers : ScanPublish(h)
    \/ \E h \in Handlers : SaveCommits(h)
    \/ \E h \in Handlers : H_ScanReturned(h)
    \/ \E h \in Handlers : H_Read1(h)
    \/ \E h \in Handlers : H_SearchFiles(h)
    \/ \E h \in Handlers : H_Read2(h)
    \/ \E h \in Handlers : H_Respond(h)
    \/ \E p \in VaryingPaths, st \in LiveStates : DiskChange(p, st)

LiveSpec == LiveInit /\ [][LiveNext]_vars

----------------------------------------------------------------------------
(* get_history: the query over the table codebase_snapshots.  The database
   file outlives the process, so the server starts on the rows of earlier
   runs. *)

HistoryLimit == 100

MaxHistory == 102

HistStep == 1800

SecondsPerDay == 24 * 60 * 60

HistoryDays == {0 - 1, 0, 1, 2, 3, 7}

HistoryLengths == (0..5) \cup ((MaxHistory - 3)..MaxHistory)

(* The row of a scan at time ts. *)
PriorRow(ts) == SummaryRow(MakeSnapshot(NoLocals, ts), CHOOSE g \in GitCommits : TRUE)

(* The time of the i-th of n scans, one every HistStep, the last one HistStep
   before t. *)
Stamp(t, n, i) == t - (n - i + 1) * HistStep

(* Tables of n rows: inserted in the order of their timestamps ("asc"), with
   neighbours inserted in the opposite order as overlapping scans commit
   ("swapped"), with neighbours of equal timestamp ("tied"). *)
Histories(t) ==
    {[i \in 1..n |->
         PriorRow(Stamp(t, n,
                        IF order = "asc" THEN i
                        ELSE IF order = "swapped"
                             THEN (IF i % 2 = 0 THEN i - 1 ELSE Min(n, i + 1))
                             ELSE Min(n, 2 * ((i + 1) \div 2))))] :
        n \in HistoryLengths, order \in {"asc", "swapped", "tied"}}

(* ORDER BY timestamp DESC *)
RECURSIVE OrderByTimestampDesc(_)
OrderByTimestampDesc(rows) ==
    IF rows = <<>> THEN <<>>
    ELSE LET newest == CHOOSE m \in {rows[i].timestamp : i \in 1..Len(rows)} :
                           \A i \in 1..Len(rows) : rows[i].timestamp <= m
             IsNewest(r) == r.timestamp = newest
             IsOlder(r) == r.timestamp # newest
         IN SelectSeq(rows, IsNewest) \o OrderByTimestampDesc(SelectSeq(rows, IsOlder))

(* Variant: the limit is applied to the table before the rows are ordered. *)
QueryHistoryLimitFirst(table, cutoff_time) ==
    LET After(r) == r.timestamp > cutoff_time
        qualifying == SelectSeq(table, After)
    IN OrderByTimestampDesc(SubSeq(qualifying, 1, Min(HistoryLimit, Len(qualifying))))

(* SELECT ... WHERE timestamp > ? ORDER BY timestamp DESC LIMIT 100 *)
QueryHistory(table, cutoff_time) ==
    LET After(r) == r.timestamp > cutoff_time
        ordered == OrderByTimestampDesc(SelectSeq(table, After))
    IN SubSeq(ordered, 1, Min(HistoryLimit, Len(ordered)))

H_History(h, days) ==
    /\ Serving
    /\ hd[h].pc = "idle"
    /\ requests < MaxRequests
    /\ requests' = requests + 1
    /\ LET cutoff_time == now - days * SecondsPerDay
       IN hd' = [hd EXCEPT ![h] =
                    [IdleHandler EXCEPT !.pc = "respond", !.kind = "history",
                                        !.args = [days |-> days], !.status = 200,
                                        !.results = QueryHistory(codebase_snapshots,
                                                                 cutoff_time)]]
    /\ UNCHANGED <<sr, project_root, now, disk, snapshots, current_snapshot, last_scan,
                   codebase_snapshots, file_snapshots, sc, w_pc, w_current_time,
                   w_wake, m_pc, scans_started, scans_completed, save_failures,
                   published>>

HistInit ==
    /\ now = StartTime + (MaxHistory + 1) * HistStep
    /\ project_root = PlainRoot
    /\ disk \in {CHOOSE d \in FewDisks : TRUE}
    /\ snapshots = <<>>
    /\ current_snapshot = None
    /\ last_scan = 0
    /\ codebase_snapshots \in Histories(now)
    /\ file_snapshots = <<>>
    /\ sc = [t \in Threads |-> IdleFrame]
    /\ w_pc = "check"
    /\ w_current_time = 0
    /\ w_wake = 0
    /\ m_pc = "embedded"
    /\ hd = [h \in Handlers |-> IdleHandler]
    /\ scans_started = 0
    /\ scans_completed = 0
    /\ save_failures = 0
    /\ published = <<>>
    /\ requests = 0
    /\ sr = NoSearch

HistNext ==
    \/ \E h \in Handlers, days \in HistoryDays : H_History(h, days)
    \/ \E h \in Handlers : H_Respond(h)

HistSpec == HistInit /\ [][HistNext]_vars

----------------------------------------------------------------------------
(* search_content over one file, as a specification of its own *)

SearchRun ==
    /\ sr.pc = "ready"
    /\ sr' = [sr EXCEPT !.pc = "done",
                        !.matches = SearchFile(sr.lines, sr.query, sr.case_sensitive)]
    /\ UNCHANGED <<now, project_root, disk, snapshots, current_snapshot, last_scan,
                   codebase_snapshots, file_snapshots, sc, w_pc, w_current_time,
                   w_wake, m_pc, hd, scans_started, scans_completed, save_failures,
                   published, requests>>

SearchInit ==
    /\ InitWith({CHOOSE d \in FewDisks : TRUE}, {"embedded"})
    /\ sr \in [pc : {"ready"}, lines : Files \cup LongFiles, query : Queries,
               case_sensitive : BOOLEAN, matches : {<<>>}]

SearchNext == SearchRun

SearchSpec == SearchInit /\ [][SearchNext]_vars

----------------------------------------------------------------------------
(* Properties *)

ScanInProgress(t) == sc[t].pc \in {"walk", "built", "save"}

WasPublished(id) == \E i \in 1..Len(published) : published[i] = id

(* What a reader obtained is one whole snapshot object that a scan installed. *)
WholeSnapshot(id, v) ==
    /\ id \in 1..Len(snapshots)
    /\ v = snapshots[id]
    /\ WasPublished(id)
    /\ v.total_files = Len(v.files)

(* C1: under any interleaving of handler reads with a scan's replace, every
   snapshot a reader obtains from the cache is one complete snapshot, the prior
   or the new one: its file_count equals len(files) and it is exactly the
   object one scan built, never a mix. *)
C1_AtomicReplace ==
    /\ current_snapshot # None =>
           WholeSnapshot(current_snapshot, snapshots[current_snapshot])
    /\ \A h \in Handlers :
           /\ hd[h].r1 # None => WholeSnapshot(hd[h].r1, hd[h].v1)
           /\ hd[h].r2 # None => WholeSnapshot(hd[h].r2, hd[h].v2)

(* A handler read the cache before and after a replace. *)
C1_Witness ==
    \E h \in Handlers :
        /\ hd[h].r1 # None
        /\ hd[h].r2 # None
        /\ hd[h].r1 # hd[h].r2

(* C2: at every instant at most one execution of scan_codebase is in progress,
   counting the scheduler's scans, the bootstrap scans and the startup scan. *)
C2_NoConcurrentScans ==
    Cardinality({t \in Threads : ScanInProgress(t)}) <= 1

RECURSIVE SumLines(_)
SumLines(files) ==
    IF files = <<>> THEN 0 ELSE Head(files).lines + SumLines(Tail(files))

Histogram(files) ==
    [c \in {files[i].file_type : i \in 1..Len(files)} |->
        Cardinality({i \in 1..Len(files) : files[i].file_type = c})]

(* C3: every snapshot a scan produces has file_count = len(files), total_lines
   = the sum of the files' line counts and category_counts = the histogram of
   the files' categories, for every tree, with binary files and files skipped
   on an I/O error. *)
C3_SnapshotInvariant ==
    \A i \in 1..Len(snapshots) :
        LET s == snapshots[i]
        IN /\ s.total_files = Len(s.files)
           /\ s.total_lines = SumLines(s.files)
           /\ s.file_types = Histogram(s.files)

(* A scan produced a snapshot of a tree with a file skipped on an I/O error
   and a binary file. *)
C3_Witness ==
    /\ disk["a.py"].kind = "ioerror"
    /\ disk["src/b.RS"].kind = "binary"
    /\ Len(snapshots) >= 1
    /\ snapshots[1].total_files = 1

(* C4: the current snapshot changes only in the step in which a scan that has
   finished its walk installs the snapshot it built, and that scan then
   returns; a scan that raises had not changed it and does not change it; a
   handler that reads the cache while a scan is in progress is not blocked and
   gets the snapshot that is current, which the running scan has not touched. *)
C4_ReplaceOnlyOnCompletion ==
    /\ [][/\ current_snapshot' # current_snapshot =>
                \E t \in Threads :
                    /\ sc[t].pc = "built"
                    /\ sc[t].pos > Len(Tree)
                    /\ sc'[t].pc = "save"
                    /\ current_snapshot' = sc[t].snap
                    /\ snapshots' = snapshots
                    /\ snapshots[sc[t].snap] =
                           MakeSnapshot(sc[t].loc, snapshots[sc[t].snap].timestamp)
          /\ \A t \in Threads :
                /\ (sc[t].pc # "raised" /\ sc'[t].pc = "raised") =>
                       /\ sc[t].snap = None
                       /\ current_snapshot' = current_snapshot
                /\ sc[t].pc = "save" => sc'[t].pc \in {"save", "ret"}
          /\ \A h \in Handlers :
                (hd[h].pc = "read1" /\ hd'[h].pc \in {"loop", "read2"}) =>
                    /\ hd'[h].r1 = current_snapshot
                    /\ current_snapshot' = current_snapshot]_vars
    /\ [](\A h \in Handlers :
             (hd[h].pc = "read1" /\ Serving) => ENABLED H_Read1(h))

(* A handler has read the current snapshot while a scan that has already
   collected files is still walking. *)
C4_Witness ==
    \E h \in Handlers, t \in Threads :
        /\ hd[h].pc = "read2"
        /\ hd[h].r1 # None
        /\ hd[h].r1 = current_snapshot
        /\ sc[t].pc = "walk"
        /\ sc[t].loc.files # <<>>

(* The handler is past its bootstrap test; a request rejected for its
   parameters never comes to it. *)
PastCheck(h) ==
    /\ hd[h].kind \in SnapshotQueries
    /\ \/ hd[h].pc \in {"read1", "loop", "read2"}
       \/ hd[h].pc = "respond" /\ hd[h].status # 400

(* The handler has made its first, its second evaluation of the cache. *)
HasRead1(h) == PastCheck(h) /\ hd[h].pc # "read1"

HasRead2(h) == PastCheck(h) /\ hd[h].pc = "respond" /\ hd[h].status = 200

PubIndex(id) == CHOOSE i \in 1..Len(published) : published[i] = id

(* C5 as stated: a query that ran the bootstrap scan builds its response from
   the snapshot that scan produced, and no response is built from an absent
   snapshot. *)
C5_Original ==
    \A h \in Handlers :
        /\ HasRead1(h) => hd[h].r1 # None
        /\ HasRead2(h) => hd[h].r2 # None
        /\ hd[h].booted =>
               /\ hd[h].r1 # None => hd[h].r1 = hd[h].mine
               /\ hd[h].r2 # None => hd[h].r2 = hd[h].mine

(* C5 (amended): a snapshot query that finds no current snapshot first runs a
   synchronous scan; every read it then makes of the cache yields a present
   snapshot, the one its own scan installed or one installed after it; no
   snapshot query builds a response from an absent snapshot. *)
C5_LazyBootstrap ==
    /\ [][\A h \in Handlers :
             (hd[h].pc = "check" /\ hd'[h].pc # "check" /\ current_snapshot = None)
                 => (hd'[h].pc = "scanning" /\ sc'[h].pc = "walk")]_vars
    /\ [](\A h \in Handlers :
             /\ PastCheck(h) => current_snapshot # None
             /\ (PastCheck(h) /\ hd[h].booted) =>
                    /\ hd[h].mine # None
                    /\ WasPublished(hd[h].mine)
             /\ HasRead1(h) =>
                    /\ hd[h].r1 # None
                    /\ hd[h].booted => PubIndex(hd[h].r1) >= PubIndex(hd[h].mine)
             /\ HasRead2(h) =>
                    /\ hd[h].r2 # None
                    /\ hd[h].booted => PubIndex(hd[h].r2) >= PubIndex(hd[h].mine))

(* A query ran the bootstrap scan and has read a snapshot that another scan
   installed after its own. *)
C5_Witness ==
    \E h \in Handlers :
        /\ hd[h].booted
        /\ hd[h].pc = "respond"
        /\ hd[h].kind = "stats"
        /\ hd[h].r1 # hd[h].mine

(* C6 as stated: once no scan is in progress, the number of per-scan summary
   rows equals the number of completed scans. *)
C6_Original ==
    (\A t \in Threads : ~ScanInProgress(t)) =>
        Len(codebase_snapshots) = scans_completed

(* C6 (amended): every completed scan is appended at most once, and exactly
   once unless its append failed: the number of summary rows equals the number
   of completed scans minus the number whose append failed, each row is the
   summary of a snapshot a scan installed, and the per-file rows are those of
   the summarised snapshots. *)
C6_AppendedOnceUnlessFailed ==
    /\ Len(codebase_snapshots) = scans_completed - save_failures
    /\ \A i \in 1..Len(codebase_snapshots) :
           \E id \in 1..Len(snapshots), g \in GitCommits :
               /\ WasPublished(id)
               /\ codebase_snapshots[i] = SummaryRow(snapshots[id], g)
    /\ Len(file_snapshots) =
           SumLines([i \in 1..Len(codebase_snapshots) |->
                        [lines |-> codebase_snapshots[i].total_files]])

(* Two scans have completed, one appended and one whose append failed. *)
C6_Witness ==
    /\ scans_completed = 2
    /\ save_failures = 1
    /\ Len(codebase_snapshots) = 1
    /\ \A t \in Threads : ~ScanInProgress(t)

(* C7: a save_snapshot that fails does not fail the scan: the scan returns the
   snapshot it built, the failure leaves the cache as the scan's replace left
   it (the snapshot was installed and is current unless a later replace took
   its place), and the caller sees a normal return, never an exception. *)
C7_PersistenceFailureContained ==
    /\ [][\A t \in Threads :
             (sc[t].pc = "save" /\ sc'[t].pc # "save"
                  /\ codebase_snapshots' = codebase_snapshots)
                 => /\ sc'[t].pc = "ret"
                    /\ sc[t].snap # None
                    /\ sc'[t].snap = sc[t].snap
                    /\ WasPublished(sc[t].snap)
                    /\ snapshots' = snapshots
                    /\ current_snapshot' = current_snapshot
                    /\ published[Len(published)] = sc[t].snap
                           => current_snapshot' = sc[t].snap
                    /\ scans_completed' = scans_completed + 1]_vars
    /\ [](\A t \in Threads : sc[t].pc = "ret" => sc[t].snap # None)

(* A scan whose append failed has returned and its snapshot is current. *)
C7_Witness ==
    /\ save_failures = 1
    /\ Len(codebase_snapshots) = 0
    /\ \E t \in Threads :
           /\ sc[t].pc = "ret"
           /\ current_snapshot = sc[t].snap

(* C8: an error in a scan cycle never ends the scheduler loop: the failed
   cycle leaves last_scan and the count of completed scans unchanged and goes
   to the back-off wait, the back-off ends in the next check no earlier than
   BackoffSeconds later, and that check, with more than the interval still
   elapsed, calls the scan again with fresh locals. *)
C8_SchedulerSurvivesErrors ==
    /\ [](/\ w_pc \in {"check", "scanning", "sleep", "backoff"}
          /\ w_pc = "backoff" => now - last_scan > scan_interval)
    /\ [][/\ (w_pc = "scanning" /\ w_pc' # "scanning" /\ sc["watcher"].pc = "raised")
                => /\ w_pc' = "backoff"
                   /\ w_wake' = now + BackoffSeconds
                   /\ last_scan' = last_scan
                   /\ scans_completed' = scans_completed
          /\ (w_pc = "backoff" /\ w_pc' # "backoff")
                => (w_pc' = "check" /\ now >= w_wake)
          /\ (w_pc = "check" /\ w_pc' # "check" /\ now - last_scan > scan_interval)
                => /\ w_pc' = "scanning"
                   /\ sc'["watcher"].pc = "walk"
                   /\ sc'["watcher"].loc = NoLocals
                   /\ sc'["watcher"].snap = None]_vars

(* After a failed first cycle and the back-off, the scheduler is scanning
   again, and no scan has completed. *)
C8_Witness ==
    /\ w_pc = "scanning"
    /\ scans_started = 2
    /\ scans_completed = 0
    /\ last_scan = 0
    /\ now >= StartTime + BackoffSeconds
    /\ sc["watcher"].pc = "walk"

(* C9 as stated: at every check the scheduler triggers a scan exactly when the
   time elapsed since the last scan is greater than or equal to the interval. *)
C9_Original ==
    [][(w_pc = "check" /\ w_pc' # "check")
          => ((w_pc' = "scanning") <=> (now - last_scan >= scan_interval))]_vars

(* C9 (amended): at every check the scheduler triggers a scan exactly when the
   time elapsed since last_scan is strictly greater than the interval, where
   last_scan is the check time at which its latest successful scan cycle began
   (0 before the first). *)
C9_TriggerWhenOverInterval ==
    /\ [][(w_pc = "check" /\ w_pc' # "check")
             => /\ (w_pc' = "scanning") <=> (now - last_scan > scan_interval)
                /\ w_current_time' = now]_vars
    /\ [][last_scan' # last_scan
             => /\ w_pc = "scanning"
                /\ sc["watcher"].pc = "ret"
                /\ last_scan' = w_current_time]_vars

(* A check made exactly one interval after the last scan went to sleep without
   scanning. *)
C9_Witness ==
    /\ w_pc = "sleep"
    /\ last_scan > 0
    /\ w_current_time - last_scan = scan_interval

(* C10: for every match at 1-based line n of a file of N lines, context_before
   is exactly the min(2, n-1) lines before it and context_after exactly the
   min(3, N-n) lines after it, in file order. *)
C10_ContextWindows ==
    sr.pc = "done" =>
        \A k \in 1..Len(sr.matches) :
            LET m == sr.matches[k]
                n == m.line_number
                N == Len(sr.lines)
            IN /\ m.context_before = SubSeq(sr.lines, n - Min(2, n - 1), n - 1)
               /\ m.context_after = SubSeq(sr.lines, n + 1, n + Min(3, N - n))

(* The 1-based positions of the lines of the searched file that match. *)
MatchingPositions ==
    {k \in 1..Len(sr.lines) : LineMatches(sr.lines[k], sr.query, sr.case_sensitive)}

(* C11: for a file with at least one matching line the search emits the first
   min(10, number of matching lines) matching lines and no others, in strictly
   ascending line_number order, line_number being the 1-based position of the
   line in the file; a file with no matching line produces no entry. *)
C11_FirstTenMatches ==
    sr.pc = "done" =>
        /\ Len(sr.matches) = Min(MatchLimit, Cardinality(MatchingPositions))
        /\ \A j \in 1..Len(sr.matches) :
               /\ sr.matches[j].line_number \in MatchingPositions
               /\ Cardinality({k \in MatchingPositions :
                                  k < sr.matches[j].line_number}) = j - 1
               /\ sr.matches[j].content = Strip(sr.lines[sr.matches[j].line_number].text)
        /\ \A j \in 1..(Len(sr.matches) - 1) :
               sr.matches[j].line_number < sr.matches[j + 1].line_number
        /\ MatchingPositions = {} => sr.matches = <<>>

(* A file with more matching lines than the limit was searched, and one of its
   first ten matching lines is not among its first ten lines. *)
C11_Witness ==
    /\ sr.pc = "done"
    /\ Cardinality(MatchingPositions) > MatchLimit
    /\ Len(sr.matches) = MatchLimit
    /\ sr.matches[MatchLimit].line_number > MatchLimit

(* An empty-query search request is being served by h. *)
EmptyQuery(h) == hd[h].kind = "search" /\ hd[h].args.q = ""

(* C12: a search whose query is empty after trimming fails with a 400 and has
   no effect: it runs no bootstrap scan even when there is no snapshot, and it
   leaves the current snapshot and the history tables unchanged. *)
C12_EmptyQueryRejected ==
    /\ [](\A h \in Handlers :
             EmptyQuery(h) =>
                 /\ hd[h].pc = "respond"
                 /\ hd[h].status = 400
                 /\ ~hd[h].booted
                 /\ sc[h] = IdleFrame)
    /\ [][\A h \in Handlers :
             (hd'[h] # hd[h] /\ (EmptyQuery(h) \/ hd'[h].status = 400)) =>
                 UNCHANGED <<snapshots, current_snapshot, codebase_snapshots,
                             file_snapshots, sc, scans_started, last_scan>>]_vars

(* An empty query is answered while there is no snapshot and no scan by any
   thread has installed one. *)
C12_Witness ==
    \E h \in Handlers :
        /\ EmptyQuery(h)
        /\ hd[h].status = 400
        /\ current_snapshot = None
        /\ snapshots = <<>>

(* The snapshot files that a search with the arguments of h has to return on
   the tree d: those of the requested type whose content is text and matches. *)
LiveMatches(h, d) ==
    {hd[h].v1.files[k].path : k \in
        {j \in 1..Len(hd[h].v1.files) :
            /\ hd[h].args.type # "" => hd[h].v1.files[j].file_type = hd[h].args.type
            /\ d[hd[h].v1.files[j].path].kind = "text"
            /\ SearchFile(TextOf(d[hd[h].v1.files[j].path].lines), hd[h].args.q,
                          hd[h].args.case_sensitive) # <<>>}}

(* C13: search considers only the paths of the current snapshot and tests
   their content as it is on disk at query time: a snapshot file changed since
   the scan so that it contains the query is returned, and a snapshot file that
   was removed or became unreadable or undecodable since the scan is left out
   without making the search fail. *)
C13_LiveSearch ==
    [][\A h \in Handlers :
          (hd[h].pc = "loop" /\ hd'[h].pc # "loop") =>
              /\ hd'[h].status # 500
              /\ {hd'[h].results[k].file : k \in 1..Len(hd'[h].results)}
                     = LiveMatches(h, disk)]_vars

(* The rows of the table that qualify for the history request served by h. *)
Qualifying(h) ==
    {i \in 1..Len(codebase_snapshots) :
        codebase_snapshots[i].timestamp > now - hd[h].args.days * SecondsPerDay}

(* C14: a history query for the last d days returns only entries taken
   strictly after now minus d days, at most 100 of them, newest first; when
   more than 100 qualify, the 100 returned are the newest ones. *)
C14_HistoryBounded ==
    \A h \in Handlers :
        (hd[h].kind = "history" /\ hd[h].pc = "respond") =>
            LET history == hd[h].results
            IN /\ \A k \in 1..Len(history) :
                      /\ history[k].timestamp > now - hd[h].args.days * SecondsPerDay
                      /\ \E i \in Qualifying(h) : codebase_snapshots[i] = history[k]
               /\ Len(history) <= HistoryLimit
               /\ Len(history) = Min(HistoryLimit, Cardinality(Qualifying(h)))
               /\ \A k \in 1..(Len(history) - 1) :
                      history[k].timestamp >= history[k + 1].timestamp
               /\ \A i \in Qualifying(h) :
                      \/ \E k \in 1..Len(history) : history[k] = codebase_snapshots[i]
                      \/ /\ Len(history) = HistoryLimit
                         /\ codebase_snapshots[i].timestamp
                                <= history[HistoryLimit].timestamp

(* More than 100 rows qualified, inserted out of order, and the query for
   fewer days on the same table leaves some rows out. *)
C14_Witness ==
    \E h \in Handlers :
        /\ hd[h].kind = "history"
        /\ hd[h].pc = "respond"
        /\ Cardinality(Qualifying(h)) > HistoryLimit
        /\ Len(hd[h].results) = HistoryLimit
        /\ \E i \in 1..(Len(codebase_snapshots) - 1) :
               codebase_snapshots[i].timestamp > codebase_snapshots[i + 1].timestamp
        /\ \E i \in 1..Len(codebase_snapshots) :
               codebase_snapshots[i].timestamp <= now - SecondsPerDay

(* The digest of every file of snapshot s. *)
Digests(s) == {<<s.files[k].path, s.files[k].content_hash>> : k \in 1..Len(s.files)}

(* C15: scanning an unchanged tree twice yields snapshots with the same
   file_count, total_lines, category_counts and per-file digests (only the
   timestamp may differ), for text files and binary files alike. *)
C15_Idempotent ==
    \A i, j \in 1..Len(snapshots) :
        /\ snapshots[i].total_files = snapshots[j].total_files
        /\ snapshots[i].total_lines = snapshots[j].total_lines
        /\ snapshots[i].file_types = snapshots[j].file_types
        /\ Digests(snapshots[i]) = Digests(snapshots[j])

(* Two scans at different times of a tree with a text and a binary file. *)
C15_Witness ==
    /\ Len(snapshots) >= 2
    /\ snapshots[1].timestamp # snapshots[2].timestamp
    /\ \E k \in 1..Len(snapshots[2].files) : snapshots[2].files[k].lines = 0
    /\ \E k \in 1..Len(snapshots[2].files) : snapshots[2].files[k].lines > 0

(* The entry of the tree with the given path relative to the root. *)
EntryOf(path) == Tree[CHOOSE i \in 1..Len(Tree) : Tree[i].path = path]

(* Entry e lies under a directory of the tree whose name is ignored. *)
UnderIgnored(e) == \E n \in 1..(Len(e.parts) - 1) : e.parts[n] \in ignore_dirs

(* C16: a file under a directory whose name is in the ignore set, at any depth
   below the root, appears in the files of no snapshot. *)
C16_IgnoredNeverListed ==
    \A i \in 1..Len(snapshots) :
        \A k \in 1..Len(snapshots[i].files) :
            ~UnderIgnored(EntryOf(snapshots[i].files[k].path))

(* A scan listed files of a tree that holds a readable file with a known
   extension directly in an ignored directory and another one three levels
   down, below an ignored directory that is not its parent. *)
C16_Witness ==
    /\ Len(snapshots) >= 1
    /\ snapshots[1].files # <<>>
    /\ \E i, j \in 1..Len(Tree) :
           /\ Tree[i].is_file /\ Tree[j].is_file
           /\ Lower(Tree[i].suffix) \in DOMAIN code_extensions
           /\ Lower(Tree[j].suffix) \in DOMAIN code_extensions
           /\ disk[Tree[i].path].kind = "text"
           /\ disk[Tree[j].path].kind = "text"
           /\ Tree[i].parts[Len(Tree[i].parts) - 1] \in ignore_dirs
           /\ Len(Tree[j].parts) > 3
           /\ Tree[j].parts[Len(Tree[j].parts) - 1] \notin ignore_dirs
           /\ UnderIgnored(Tree[j])

(* C17: for every root and every readable file of the tree that is not under
   an ignored directory of that tree, the file is left out of the snapshot
   when its extension, lower-cased, is not in the table, and is in the snapshot
   with the category of its extension when it is in the table. *)
C17_ExtensionFilter ==
    \A i \in 1..Len(snapshots) :
        \A n \in 1..Len(Tree) :
            LET e == Tree[n]
                listed == {k \in 1..Len(snapshots[i].files) :
                              snapshots[i].files[k].path = e.path}
            IN (e.is_file /\ ~UnderIgnored(e)
                    /\ disk[e.path].kind \in {"text", "binary"}) =>
                   IF Lower(e.suffix) \in DOMAIN code_extensions
                   THEN /\ listed # {}
                        /\ \A k \in listed :
                               snapshots[i].files[k].file_type
                                   = code_extensions[Lower(e.suffix)]
                   ELSE listed = {}

(* The candidate entries of the tree whose content is of the given kinds. *)
CandidatesOf(kinds) ==
    {n \in 1..Len(Tree) : IsCandidate(Tree[n]) /\ disk[Tree[n].path].kind \in kinds}

(* The positions in the files of s of the entry e. *)
Listed(s, e) == {k \in 1..Len(s.files) : s.files[k].path = e.path}

RECURSIVE LinesOnDisk(_)
LinesOnDisk(entries) ==
    IF entries = {} THEN 0
    ELSE LET n == CHOOSE m \in entries : TRUE
         IN disk[Tree[n].path].lines + LinesOnDisk(entries \ {n})

(* C18: a candidate file whose content cannot be decoded does not abort the
   scan and yields one FileInfo with lines = 0 and a digest derived from its
   path; it counts in total_files and in file_types, and adds nothing to
   total_lines. *)
C18_BinarySafety ==
    \A i \in 1..Len(snapshots) :
        LET s == snapshots[i]
        IN /\ \A n \in CandidatesOf({"binary"}) :
                  /\ Cardinality(Listed(s, Tree[n])) = 1
                  /\ \A k \in Listed(s, Tree[n]) :
                         /\ s.files[k].lines = 0
                         /\ s.files[k].content_hash = <<"md5", "path", Tree[n].path>>
                         /\ s.files[k].file_type \in DOMAIN s.file_types
                         /\ s.file_types[s.files[k].file_type] =
                                Cardinality({m \in CandidatesOf({"text", "binary"}) :
                                    code_extensions[Lower(Tree[m].suffix)]
                                        = s.files[k].file_type})
           /\ s.total_files = Cardinality(CandidatesOf({"text", "binary"}))
           /\ s.total_lines = LinesOnDisk(CandidatesOf({"text"}))

(* A scan completed on a tree whose first candidate is binary and whose second
   is a text file of the same walk. *)
C18_Witness ==
    /\ disk["a.py"].kind = "binary"
    /\ disk["src/b.RS"].kind = "text"
    /\ scans_completed >= 1
    /\ Len(snapshots) >= 1
    /\ snapshots[1].total_files = 2
    /\ snapshots[1].total_lines = disk["src/b.RS"].lines

(* C19: a candidate file that raises an I/O error other than a decode failure
   while it is read is skipped and the walk goes on: the snapshot holds every
   other eligible file, and the skipped file counts in none of total_files,
   total_lines and file_types. *)
C19_ReadErrorSkipped ==
    \A i \in 1..Len(snapshots) :
        LET s == snapshots[i]
            others == CandidatesOf({"text", "binary"})
        IN /\ \A n \in CandidatesOf({"ioerror"}) : Listed(s, Tree[n]) = {}
           /\ \A n \in others : Listed(s, Tree[n]) # {}
           /\ Len(s.files) = Cardinality(others)
           /\ s.total_files = Len(s.files)
           /\ s.total_lines = SumLines(s.files)
           /\ \A c \in DOMAIN s.file_types :
                  s.file_types[c] = Cardinality({k \in 1..Len(s.files) :
                                                    s.files[k].file_type = c})
           /\ \A k \in 1..Len(s.files) : s.files[k].file_type \in DOMAIN s.file_types

(* The first candidate of the walk could not be read, and the scan completed
   with the file that comes after it. *)
C19_Witness ==
    /\ disk["a.py"].kind = "ioerror"
    /\ disk["src/b.RS"].kind = "text"
    /\ scans_completed >= 1
    /\ Len(snapshots) >= 1
    /\ \E k \in 1..Len(snapshots[1].files) : snapshots[1].files[k].path = "src/b.RS"

(* C20: every response of a read request (current snapshot, list files,
   search, stats) is computed from one single snapshot even when a replace
   happens while the request is served: what the handler takes from its second
   evaluation of self.current_snapshot (the total count, the total of files
   searched, the timestamp of the scan age) belongs to the snapshot it took its
   first from (the files listed, the files searched, the snapshot returned). *)
C20_SingleSnapshot ==
    \A h \in Handlers :
        HasRead2(h) =>
            /\ hd[h].r1 = hd[h].r2
            /\ hd[h].v1.timestamp = hd[h].v2.timestamp

(* C21: the current snapshot never regresses.  In every step of every
   interleaving of the watcher's, the startup and the bootstrap scans, a cache
   that holds a snapshot still holds one afterwards, and a replace installs a
   snapshot whose timestamp is greater than or equal to the timestamp of the
   snapshot it replaces. *)
C21_NeverRegresses ==
    [][ /\ (current_snapshot # None => current_snapshot' # None)
        /\ (current_snapshot # None /\ current_snapshot' # current_snapshot)
               => snapshots'[current_snapshot'].timestamp
                      >= snapshots[current_snapshot].timestamp ]_vars

(* The snapshots a summary row of the history can be the summary of. *)
SummarisedBy(row) ==
    {id \in 1..Len(snapshots) :
        /\ WasPublished(id)
        /\ \E g \in GitCommits : row = SummaryRow(snapshots[id], g)}

(* From summary row i on, the per-file rows after the first `done` ones are,
   scan by scan and in the order of the summary rows, one row for every file of
   the snapshot summarised, and nothing else. *)
RECURSIVE StoredWhole(_, _)
StoredWhole(i, done) ==
    IF i > Len(codebase_snapshots)
    THEN done = Len(file_snapshots)
    ELSE \E id \in SummarisedBy(codebase_snapshots[i]) :
            LET rows == FileRows(snapshots[id])
            IN  /\ done + Len(rows) <= Len(file_snapshots)
                /\ SubSeq(file_snapshots, done + 1, done + Len(rows)) = rows
                /\ StoredWhole(i + 1, done + Len(rows))

IsPrefix(s, t) == Len(s) <= Len(t) /\ SubSeq(t, 1, Len(s)) = s

(* C22: persisting a scan is all-or-nothing and append-only.  After any
   sequence of appends, failed ones included, the store holds for every scan
   either its summary row together with one per-file row for each file of its
   snapshot, or nothing of it (every per-file row belongs to a summarised scan,
   and a scan whose append failed left no row); and no step modifies or removes
   a row that is in the store: both tables only grow at their end. *)
C22_AllOrNothingAppendOnly ==
    /\ [](/\ StoredWhole(1, 0)
          /\ Len(codebase_snapshots) = scans_completed - save_failures)
    /\ [][/\ IsPrefix(codebase_snapshots, codebase_snapshots')
          /\ IsPrefix(file_snapshots, file_snapshots')]_vars

(* An append failed and another succeeded: the store holds exactly the
   summary row and the per-file rows, more than one, of the scan that was
   appended, and nothing of the scan whose append failed. *)
C22_Witness ==
    /\ save_failures >= 1
    /\ Len(codebase_snapshots) = 1
    /\ Len(file_snapshots) >= 2
    /\ \E id \in SummarisedBy(codebase_snapshots[1]) :
           file_snapshots = FileRows(snapshots[id])

====
